---- MODULE Spec2Model ----
(***************************************************************************)
(* Model of src/app.py ("Genie"): the call_gemini transport adapter, the   *)
(* in-memory conversation store CONVERSATIONS and the POST /api/chat       *)
(* handler api_chat, run concurrently on one thread per request.           *)
(***************************************************************************)
EXTENDS Naturals, Sequences, FiniteSets, TLC

(***************************************************************************)
(* Bounds of the model.                                                    *)
(***************************************************************************)
MaxMsgLen == 2        \* longest raw message (in characters) a client sends
MaxRequests == 2      \* requests the server receives in one behaviour

(***************************************************************************)
(* Python values the provider hands back.  Every value is a tagged record. *)
(*   None            [t |-> "None"]                                        *)
(*   str             [t |-> "str", s |-> ...]                              *)
(*   list            [t |-> "list", items |-> << ... >>]                   *)
(*   any other object [t |-> "object", name, content, strRaises]:          *)
(*      content is << >> (no attribute `content`) or <<v>>;                *)
(*      strRaises says whether its __str__ raises.                         *)
(***************************************************************************)
PyNone == [t |-> "None"]
PyStrVal(s) == [t |-> "str", s |-> s]
PyList(items) == [t |-> "list", items |-> items]
PyObject(name, content, strRaises) ==
    [t |-> "object", name |-> name, content |-> content, strRaises |-> strRaises]

\* Result of evaluating a Python expression: a value, or a raised exception
\* whose str() is msg.
Ok(v) == [raised |-> FALSE, v |-> v, msg |-> ""]
Raise(msg) == [raised |-> TRUE, v |-> "", msg |-> msg]

\* join(sep, <<s1, ..., sn>>) models sep.join([...]) on strings
RECURSIVE Join(_, _)
Join(sep, ss) ==
    IF ss = << >> THEN ""
    ELSE IF Len(ss) = 1 THEN ss[1]
    ELSE ss[1] \o sep \o Join(sep, Tail(ss))

\* bool(v): Python truthiness
Truthy(v) ==
    CASE v.t = "None" -> FALSE
      [] v.t = "str" -> v.s # ""
      [] v.t = "list" -> v.items # << >>
      [] OTHER -> TRUE

\* repr(v) of an element, as str(list) prints it (no list holds a list here)
PyRepr(v) ==
    CASE v.t = "None" -> "None"
      [] v.t = "str" -> "'" \o v.s \o "'"
      [] v.t = "object" -> "<" \o v.name \o ">"
      [] OTHER -> "[...]"

\* str(v): Ok(text) or Raise(msg) when a __str__ raises
PyStr(v) ==
    CASE v.t = "None" -> Ok("None")
      [] v.t = "str" -> Ok(v.s)
      [] v.t = "list" ->
            Ok("[" \o Join(", ", [i \in 1..Len(v.items) |-> PyRepr(v.items[i])]) \o "]")
      [] OTHER ->
            IF v.strRaises THEN Raise("__str__ failed") ELSE Ok("<" \o v.name \o ">")

\* json.dumps of a list element
JsonAtom(v) ==
    CASE v.t = "None" -> Ok("null")
      [] v.t = "str" -> Ok("\"" \o v.s \o "\"")
      [] v.t = "list" -> Ok("[...]")
      [] OTHER -> Raise("Object of type " \o v.name \o " is not JSON serializable")

\* json.dumps(v): Ok(text), or Raise(msg) for a value json cannot serialise
JsonDumps(v) ==
    IF v.t = "list"
    THEN LET atoms == [i \in 1..Len(v.items) |-> JsonAtom(v.items[i])]
             bad == {i \in 1..Len(v.items) : atoms[i].raised}
         IN  IF bad # {}
             THEN atoms[CHOOSE i \in bad : \A j \in bad : i <= j]
             ELSE Ok("[" \o Join(", ", [i \in 1..Len(v.items) |-> atoms[i].v]) \o "]")
    ELSE JsonAtom(v)

(***************************************************************************)
(* Provider responses.  A response is a dict or an arbitrary object:       *)
(*   kind     "dict" | "object"                                            *)
(*   last     <<c>> when resp.last.content exists with value c, else << >> *)
(*   output   <<v>> when the object has attribute `output`, else << >>     *)
(*   content, outputKey, error                                             *)
(*            the dict's 'content', 'output' and 'error' entries           *)
(*   repr     what str(resp) returns,  strRaises: str(resp) raises         *)
(***************************************************************************)
Resp(kind, last, output, content, outputKey, error, repr, strRaises) ==
    [kind |-> kind, last |-> last, output |-> output, content |-> content,
     outputKey |-> outputKey, error |-> error, repr |-> repr,
     strRaises |-> strRaises]

ObjResp(last, output, repr, strRaises) ==
    Resp("object", last, output, << >>, << >>, << >>, repr, strRaises)
DictResp(content, outputKey, repr) ==
    Resp("dict", << >>, << >>, content, outputKey, << >>, repr, FALSE)
\* {"error": msg}
ErrorDict(msg) ==
    Resp("dict", << >>, << >>, << >>, << >>, <<PyStrVal(msg)>>,
         "{'error': '" \o msg \o "'}", FALSE)

GoodPart == PyObject("Part", <<PyStrVal("p1")>>, FALSE)
BadPart == PyObject("Blob", << >>, TRUE)
PlainObj == PyObject("Candidate", << >>, FALSE)

Responses ==
    { ObjResp(<<PyStrVal("hello")>>, << >>, "<ChatResponse>", FALSE),
      ObjResp(<<PyNone>>, << >>, "<ChatResponse>", FALSE),
      DictResp(<<PyStrVal("hi")>>, << >>, "{'content': 'hi'}"),
      DictResp(<<PyStrVal("")>>, <<PyStrVal("out")>>, "{'content': '', 'output': 'out'}"),
      DictResp(<< >>, << >>, "{}"),
      ObjResp(<< >>, << >>, "<Response>", FALSE),
      ObjResp(<< >>, << >>, "<Response>", TRUE),
      ObjResp(<< >>, <<PyStrVal("text")>>, "<Response>", FALSE),
      ObjResp(<< >>, <<PyStrVal("")>>, "<Response>", FALSE),
      ObjResp(<< >>, <<PyNone>>, "<Response>", FALSE),
      ObjResp(<< >>, <<PyList(<<GoodPart, PyStrVal("p2"), PyStrVal("")>>)>>, "<Response>", FALSE),
      ObjResp(<< >>, <<PyList(<<PyStrVal("p2"), PyNone>>)>>, "<Response>", FALSE),
      ObjResp(<< >>, <<PyList(<<PyStrVal("p2"), BadPart>>)>>, "<Response>", FALSE),
      ObjResp(<< >>, <<PyList(<<BadPart>>)>>, "<Response>", TRUE),
      ObjResp(<< >>, <<PlainObj>>, "<Response>", FALSE) }

\* str(resp)
StrResp(resp) == IF resp.strRaises THEN Raise("__str__ failed") ELSE Ok(resp.repr)

\* json.dumps(resp) of a dict response
RECURSIVE JsonPairs(_)
JsonPairs(pairs) ==
    IF pairs = << >> THEN << >>
    ELSE LET k == pairs[1][1]
             f == pairs[1][2]
         IN  (IF f = << >> THEN << >>
              ELSE <<"\"" \o k \o "\": " \o JsonDumps(f[1]).v>>) \o JsonPairs(Tail(pairs))
JsonResp(resp) ==
    IF resp.kind = "dict"
    THEN Ok("{" \o Join(", ", JsonPairs(<< <<"content", resp.content>>,
                                          <<"output", resp.outputKey>>,
                                          <<"error", resp.error>> >>)) \o "}")
    ELSE Raise("Object of type Response is not JSON serializable")

\* resp.get(key): None when the key is absent
DictGet(field) == IF field = << >> THEN PyNone ELSE field[1]

(***************************************************************************)
(* Module configuration (src/app.py lines 7-24).                           *)
(*   GOOGLE_API_KEY  TRUE when the environment sets a non-empty key        *)
(*   genai           the imported SDK module:                              *)
(*      loaded       FALSE when the import failed (genai is None)          *)
(*      chat, responses, generate                                          *)
(*                   hasattr(genai, 'chat') and hasattr(genai.chat,        *)
(*                   'create'); likewise responses.create; generate        *)
(***************************************************************************)
VARIABLES GOOGLE_API_KEY, genai

DEFAULT_MODEL == "gpt-4o-mini"

GenaiModules ==
    { g \in [loaded : BOOLEAN, chat : BOOLEAN, responses : BOOLEAN,
             generate : BOOLEAN] :
        ~g.loaded => (~g.chat /\ ~g.responses /\ ~g.generate) }

\* lines 7-24: import the SDK, read the key; genai.configure (line 21) changes
\* nothing the program reads
ModuleInit ==
    /\ GOOGLE_API_KEY \in BOOLEAN
    /\ genai \in GenaiModules

(***************************************************************************)
(* What the provider does when one of its entry points is called: raise an *)
(* exception whose str() is msg, or return resp.                           *)
(***************************************************************************)
CallErrors == {"quota exceeded"}
NoResp == ObjResp(<< >>, << >>, "", FALSE)
Behaviours ==
    { [raises |-> TRUE, msg |-> m, resp |-> NoResp] : m \in CallErrors }
      \cup { [raises |-> FALSE, msg |-> "", resp |-> r] : r \in Responses }

SDK_UNAVAILABLE == "Generative AI SDK unavailable or API key not set."

\* One recorded provider call: the entry point and its keyword arguments.
\* conversation is << >> when the keyword is not passed.
ChatCreateCall(model_name, prompt, conversation) ==
    [fn |-> "chat.create", model |-> model_name, prompt |-> prompt,
     conversation |-> conversation]
ResponsesCreateCall(model_name, prompt) ==
    [fn |-> "responses.create", model |-> model_name, prompt |-> prompt,
     conversation |-> << >>]
GenerateCall(model_name, prompt) ==
    [fn |-> "generate", model |-> model_name, prompt |-> prompt,
     conversation |-> << >>]

\* What call_gemini returns: (reply, raw).  calls and caught record how it got
\* there: the provider calls it made, and << >> or <<str(e)>> for the exception
\* the handler of line 183 caught.
Returned(reply, raw, calls) ==
    [reply |-> reply, raw |-> raw, calls |-> calls, caught |-> << >>]
\* line 184: return None, {"error": str(e)}
Caught(msg, calls) ==
    [reply |-> PyNone, raw |-> ErrorDict(msg), calls |-> calls, caught |-> <<msg>>]

\* lines 140-149: reply extraction of shape 1
ExtractChat(resp, calls) ==
    IF resp.last # << >>
    THEN Returned(resp.last[1], resp, calls)
    ELSE IF resp.kind = "dict"
    THEN IF Truthy(DictGet(resp.content))
         THEN Returned(DictGet(resp.content), resp, calls)
         ELSE IF Truthy(DictGet(resp.outputKey))
         THEN Returned(DictGet(resp.outputKey), resp, calls)
         ELSE LET j == JsonResp(resp)
              IN  IF j.raised THEN Caught(j.msg, calls)
                  ELSE Returned(PyStrVal(j.v), resp, calls)
    ELSE LET s == StrResp(resp)
         IN  IF s.raised THEN Caught(s.msg, calls)
             ELSE Returned(PyStrVal(s.v), resp, calls)

\* line 161: getattr(p, 'content', None) or p
PartOf(p) ==
    IF p.t = "object" /\ p.content # << >> /\ Truthy(p.content[1])
    THEN p.content[1] ELSE p

\* lines 160-164: the body of the inner try
OutputText(out) ==
    IF out.t = "list"
    THEN LET parts == [i \in 1..Len(out.items) |-> PartOf(out.items[i])]
             kept == SelectSeq(parts, Truthy)
             strs == [i \in 1..Len(kept) |-> PyStr(kept[i])]
             bad == {i \in 1..Len(kept) : strs[i].raised}
         IN  IF bad # {}
             THEN strs[CHOOSE i \in bad : \A j \in bad : i <= j]
             ELSE Ok(Join("\n", [i \in 1..Len(kept) |-> strs[i].v]))
    ELSE PyStr(out)

\* ExtractResponses without the inner try of lines 158-166
ExtractResponsesNoInnerTry(resp, calls) ==
    LET text == IF resp.output # << >> THEN OutputText(resp.output[1])
                ELSE StrResp(resp)
    IN  IF text.raised THEN Caught(text.msg, calls)
        ELSE Returned(PyStrVal(text.v), resp, calls)

\* lines 154-169: text extraction of shape 2
ExtractResponses(resp, calls) ==
    LET inner == IF resp.output # << >> THEN OutputText(resp.output[1]) ELSE Raise("")
        text == IF resp.output # << >> /\ ~inner.raised
                THEN inner              \* lines 160-164 completed
                ELSE StrResp(resp)      \* line 166 or line 168
    IN  IF text.raised THEN Caught(text.msg, calls)
        ELSE Returned(PyStrVal(text.v), resp, calls)

\* ExtractGenerate with str(out) where line 180 has json.dumps(out)
ExtractGenerateStr(resp, calls) ==
    IF resp.output # << >>
    THEN LET s == PyStr(resp.output[1])
         IN  IF s.raised THEN Caught(s.msg, calls)
             ELSE Returned(PyStrVal(s.v), resp, calls)
    ELSE LET s == StrResp(resp)
         IN  IF s.raised THEN Caught(s.msg, calls)
             ELSE Returned(PyStrVal(s.v), resp, calls)

\* lines 174-181: extraction of shape 3
ExtractGenerate(resp, calls) ==
    IF resp.output # << >>
    THEN LET out == resp.output[1]
         IN  IF out.t = "str"
             THEN Returned(out, resp, calls)
             ELSE LET j == JsonDumps(out)
                  IN  IF j.raised THEN Caught(j.msg, calls)
                      ELSE Returned(PyStrVal(j.v), resp, calls)
    ELSE LET s == StrResp(resp)
         IN  IF s.raised THEN Caught(s.msg, calls)
             ELSE Returned(PyStrVal(s.v), resp, calls)

\* call_gemini going on to the next shape when chat.create raises
call_geminiRetry(prompt, conversation_id, beh) ==
    IF genai.loaded
    THEN IF genai.chat /\ ~(beh.raises /\ (genai.responses \/ genai.generate))
         THEN LET conv == IF conversation_id # << >> /\ conversation_id[1] # ""
                          THEN conversation_id ELSE << >>
                  calls == <<ChatCreateCall(DEFAULT_MODEL, prompt, conv)>>
              IN  IF beh.raises THEN Caught(beh.msg, calls)
                  ELSE ExtractChat(beh.resp, calls)
         ELSE LET first == IF genai.chat
                           THEN <<ChatCreateCall(DEFAULT_MODEL, prompt, << >>)>>
                           ELSE << >>
              IN  IF genai.responses
                  THEN LET calls == first \o <<ResponsesCreateCall(DEFAULT_MODEL, prompt)>>
                       IN  IF beh.raises THEN Caught(beh.msg, calls)
                           ELSE ExtractResponses(beh.resp, calls)
                  ELSE IF genai.generate
                  THEN LET calls == first \o <<GenerateCall(DEFAULT_MODEL, prompt)>>
                       IN  IF beh.raises THEN Caught(beh.msg, calls)
                           ELSE ExtractGenerate(beh.resp, calls)
                  ELSE Returned(PyNone, ErrorDict(SDK_UNAVAILABLE), << >>)
    ELSE Returned(PyNone, ErrorDict(SDK_UNAVAILABLE), << >>)

\* lines 121-187.  conversation_id is << >> (None) or <<id>>; beh is what the
\* provider does with the one call the adapter makes.
call_gemini(prompt, conversation_id, beh) ==
    IF genai.loaded
    THEN IF genai.chat
         THEN LET conv == IF conversation_id # << >> /\ conversation_id[1] # ""
                          THEN conversation_id ELSE << >>
                  calls == <<ChatCreateCall(DEFAULT_MODEL, prompt, conv)>>
              IN  IF beh.raises THEN Caught(beh.msg, calls)
                  ELSE ExtractChat(beh.resp, calls)
         ELSE IF genai.responses
         THEN LET calls == <<ResponsesCreateCall(DEFAULT_MODEL, prompt)>>
              IN  IF beh.raises THEN Caught(beh.msg, calls)
                  ELSE ExtractResponses(beh.resp, calls)
         ELSE IF genai.generate
         THEN LET calls == <<GenerateCall(DEFAULT_MODEL, prompt)>>
              IN  IF beh.raises THEN Caught(beh.msg, calls)
                  ELSE ExtractGenerate(beh.resp, calls)
         ELSE Returned(PyNone, ErrorDict(SDK_UNAVAILABLE), << >>)
    ELSE Returned(PyNone, ErrorDict(SDK_UNAVAILABLE), << >>)

(***************************************************************************)
(* The server: CONVERSATIONS (line 32) and the handler threads running     *)
(* api_chat (lines 198-219).  app.run (line 235) starts the threaded       *)
(* development server, which runs each request on a thread of its own:     *)
(* handler h serves request number h.                                      *)
(*   pc[h]: "idle" | "call" | "setdefault" | "append_user" |               *)
(*          "append_assistant" | "done"                                    *)
(*   message, conversation_id, reply: api_chat's local variables           *)
(*   response[h]: << >> or <<the HTTP response sent>>                      *)
(* History variables, read by no action:                                   *)
(*   request[h]  << >> or <<the JSON body received>>                       *)
(*   adapter[h]  << >> or <<what call_gemini returned, with its calls>>    *)
(*   seeded      CONVERSATIONS in the initial state                        *)
(*   history     per conversation id, the append operations completed, in  *)
(*               order of completion, each with the request that made it   *)
(* invocation is one call of call_gemini on its own: its arguments, what   *)
(* the provider did when called (provider) and what call_gemini returned.  *)
(***************************************************************************)
VARIABLES invocation, CONVERSATIONS, pc, message, conversation_id, reply,
          response, request, adapter, seeded, history

vars == <<GOOGLE_API_KEY, genai, invocation, CONVERSATIONS, pc, message,
          conversation_id, reply, response, request, adapter, seeded,
          history>>
serverVars == <<CONVERSATIONS, pc, message, conversation_id, reply, response,
                request, adapter, seeded, history>>
moduleVars == <<GOOGLE_API_KEY, genai>>

Chars == {" ", "a"}
RawMessages == UNION { [1..n -> Chars] : n \in 0..MaxMsgLen }

\* str.strip() on a sequence of characters
RECURSIVE LStrip(_)
LStrip(cs) == IF cs # << >> /\ Head(cs) = " " THEN LStrip(Tail(cs)) ELSE cs
RECURSIVE RStrip(_)
RStrip(cs) ==
    IF cs # << >> /\ cs[Len(cs)] = " " THEN RStrip(SubSeq(cs, 1, Len(cs) - 1)) ELSE cs
\* no trimming at all
NoStrip(cs) == cs
Strip(cs) == RStrip(LStrip(cs))
\* the Python string made of the characters cs
Text(cs) == Join("", cs)

Prompts == { Text(Strip(m)) : m \in RawMessages } \ {""}
ClientConvIds == {"", "c1"}
OptionalConvIds == {<< >>} \cup { <<c>> : c \in ClientConvIds }
Timestamps == {"t1"}
Handlers == 1..MaxRequests

\* request.get_json(): the keys a client may send; << >> is an absent key
RequestData ==
    [message : {<< >>} \cup { <<m>> : m \in RawMessages },
     conversation_id : OptionalConvIds]

Turn(role, text) == [role |-> role, text |-> text]
HttpResponse(status, key, value) == [status |-> status, key |-> key, value |-> value]

NotInvoked == Returned(PyNone, NoResp, << >>)
NoBehaviour == [raises |-> FALSE, msg |-> "", resp |-> NoResp]
NoInvocation ==
    [pc |-> "none", prompt |-> "", conversation_id |-> << >>,
     provider |-> NoBehaviour, result |-> NotInvoked]

\* CONVERSATIONS[key] = []: a fresh list whether or not the key is there
SetDefaultReset(store, key) ==
    [k \in DOMAIN store \cup {key} |-> IF k = key THEN << >> ELSE store[k]]

\* dict.setdefault(key, []): the store after the call
SetDefaultOf(store, key) ==
    IF key \in DOMAIN store THEN store
    ELSE [k \in DOMAIN store \cup {key} |-> IF k = key THEN << >> ELSE store[k]]

\* store[key] = [turn]: the list replaced instead of extended
AppendToReplace(store, key, turn) == [store EXCEPT ![key] = <<turn>>]

\* store[key].append(turn)
AppendTo(store, key, turn) == [store EXCEPT ![key] = Append(@, turn)]

\* line 32, and the handler threads before their first request
ServerInit ==
    /\ CONVERSATIONS = << >>
    /\ pc = [h \in Handlers |-> "idle"]
    /\ message = [h \in Handlers |-> ""]
    /\ conversation_id = [h \in Handlers |-> ""]
    /\ reply = [h \in Handlers |-> PyNone]
    /\ response = [h \in Handlers |-> << >>]
    /\ request = [h \in Handlers |-> << >>]
    /\ adapter = [h \in Handlers |-> << >>]
    /\ seeded = << >>
    /\ history = << >>

Init ==
    /\ ModuleInit
    /\ invocation = NoInvocation
    /\ ServerInit

\* lines 200-206: read the body, trim the message, reject an empty one,
\* choose the conversation id
Receive(h, Data) ==
    /\ pc[h] = "idle"
    /\ \E data \in Data, ts \in Timestamps :
          LET msg == Text(Strip(IF data.message = << >> THEN << >>
                                ELSE data.message[1]))
              cid == IF data.conversation_id # << >> /\ data.conversation_id[1] # ""
                     THEN data.conversation_id[1]
                     ELSE "conv-" \o ts
          IN  /\ request' = [request EXCEPT ![h] = <<data>>]
              /\ message' = [message EXCEPT ![h] = msg]
              /\ IF msg = ""
                 THEN /\ response' = [response EXCEPT ![h] =
                            <<HttpResponse(400, "error", PyStrVal("no message provided"))>>]
                      /\ pc' = [pc EXCEPT ![h] = "done"]
                      /\ UNCHANGED conversation_id
                 ELSE /\ conversation_id' = [conversation_id EXCEPT ![h] = cid]
                      /\ pc' = [pc EXCEPT ![h] = "call"]
                      /\ UNCHANGED response
    /\ UNCHANGED <<CONVERSATIONS, reply, adapter, seeded, history, moduleVars,
                   invocation>>

\* the error text without the adapter's reason
ErrOfUnknown(raw) == PyStrVal("unknown error")

\* line 212: raw.get('error') if isinstance(raw, dict) else 'unknown error'
ErrOf(raw) ==
    IF raw.kind = "dict" THEN DictGet(raw.error) ELSE PyStrVal("unknown error")

\* api_chat storing the user turn before it calls the adapter
CallAdapterSavesFirst(h, Behs) ==
    /\ pc[h] = "call"
    /\ \E beh \in Behs :
          LET r == call_gemini(message[h], <<conversation_id[h]>>, beh)
          IN  /\ adapter' = [adapter EXCEPT ![h] = <<r>>]
              /\ reply' = [reply EXCEPT ![h] = r.reply]
              /\ IF r.reply = PyNone
                 THEN /\ response' = [response EXCEPT ![h] =
                            <<HttpResponse(500, "error",
                                PyStrVal("Gemini request failed: " \o PyStr(ErrOf(r.raw)).v))>>]
                      /\ pc' = [pc EXCEPT ![h] = "done"]
                 ELSE /\ pc' = [pc EXCEPT ![h] = "append_assistant"]
                      /\ UNCHANGED response
    /\ CONVERSATIONS' = AppendTo(SetDefaultOf(CONVERSATIONS, conversation_id[h]),
                                 conversation_id[h], Turn("user", PyStrVal(message[h])))
    /\ UNCHANGED <<message, conversation_id, request, seeded, history, moduleVars,
                   invocation>>

\* lines 209-213: call the adapter; answer 500 when it returns no reply
CallAdapter(h, Behs) ==
    /\ pc[h] = "call"
    /\ \E beh \in Behs :
          LET r == call_gemini(message[h], <<conversation_id[h]>>, beh)
          IN  /\ adapter' = [adapter EXCEPT ![h] = <<r>>]
              /\ reply' = [reply EXCEPT ![h] = r.reply]
              /\ IF r.reply = PyNone
                 THEN /\ response' = [response EXCEPT ![h] =
                            <<HttpResponse(500, "error",
                                PyStrVal("Gemini request failed: " \o PyStr(ErrOf(r.raw)).v))>>]
                      /\ pc' = [pc EXCEPT ![h] = "done"]
                 ELSE /\ pc' = [pc EXCEPT ![h] = "setdefault"]
                      /\ UNCHANGED response
    /\ UNCHANGED <<CONVERSATIONS, message, conversation_id, request,
                   seeded, history, moduleVars, invocation>>

\* line 216, first call: CONVERSATIONS.setdefault(conversation_id, [])
SetDefault(h) ==
    /\ pc[h] = "setdefault"
    /\ CONVERSATIONS' = SetDefaultOf(CONVERSATIONS, conversation_id[h])
    /\ history' = IF conversation_id[h] \in DOMAIN history THEN history
                  ELSE [k \in DOMAIN history \cup {conversation_id[h]} |->
                          IF k = conversation_id[h] THEN << >> ELSE history[k]]
    /\ pc' = [pc EXCEPT ![h] = "append_user"]
    /\ UNCHANGED <<message, conversation_id, reply, response, request,
                   adapter, seeded, moduleVars, invocation>>

\* line 216, second call: .append({"role": "user", "text": message})
AppendUser(h) ==
    /\ pc[h] = "append_user"
    /\ CONVERSATIONS' = AppendTo(CONVERSATIONS, conversation_id[h],
                                 Turn("user", PyStrVal(message[h])))
    /\ history' = [history EXCEPT ![conversation_id[h]] =
                      Append(@, [number |-> h, role |-> "user"])]
    /\ pc' = [pc EXCEPT ![h] = "append_assistant"]
    /\ UNCHANGED <<message, conversation_id, reply, response, request,
                   adapter, seeded, moduleVars, invocation>>

\* lines 217-219: append the assistant turn and answer 200
AppendAssistant(h) ==
    /\ pc[h] = "append_assistant"
    /\ CONVERSATIONS' = AppendTo(CONVERSATIONS, conversation_id[h],
                                 Turn("assistant", reply[h]))
    /\ history' = [history EXCEPT ![conversation_id[h]] =
                      Append(@, [number |-> h, role |-> "assistant"])]
    /\ response' = [response EXCEPT ![h] = <<HttpResponse(200, "reply", reply[h])>>]
    /\ pc' = [pc EXCEPT ![h] = "done"]
    /\ UNCHANGED <<message, conversation_id, reply, request, adapter,
                   seeded, moduleVars, invocation>>

\* requests whose message needs no trimming, and a provider that fails or
\* answers with a plain response
ConcData ==
    [message : { << << >> >>, << <<"a">> >>, << <<"a", "a">> >> },
     conversation_id : {<< >>, <<"c1">>}]
ConcBehaviours ==
    { b \in Behaviours : b.raises \/ b.resp = ObjResp(<< >>, << >>, "<Response>", FALSE) }

\* The handler threads of one server process, serving requests concurrently
Next ==
    \E h \in Handlers :
        \/ Receive(h, ConcData)
        \/ CallAdapter(h, ConcBehaviours)
        \/ SetDefault(h)
        \/ AppendUser(h)
        \/ AppendAssistant(h)
Spec == Init /\ [][Next]_vars

(***************************************************************************)
(* One request, start to answer, against a store earlier requests may have *)
(* filled.  "<Response>" is a reply every loaded SDK with some entry point *)
(* can have produced (str(resp) of a response with no known field).        *)
(***************************************************************************)
EarlierTurns == <<Turn("user", PyStrVal("a")), Turn("assistant", PyStrVal("<Response>"))>>
EarlierOps == <<[number |-> 0, role |-> "user"], [number |-> 0, role |-> "assistant"]>>
SeedKeys ==
    IF genai.loaded /\ (genai.chat \/ genai.responses \/ genai.generate)
    THEN {{}, {"c1"}, {"conv-t1"}}
    ELSE {{}}

InitSeq ==
    /\ ModuleInit
    /\ invocation = NoInvocation
    /\ pc = [h \in Handlers |-> "idle"]
    /\ message = [h \in Handlers |-> ""]
    /\ conversation_id = [h \in Handlers |-> ""]
    /\ reply = [h \in Handlers |-> PyNone]
    /\ response = [h \in Handlers |-> << >>]
    /\ request = [h \in Handlers |-> << >>]
    /\ adapter = [h \in Handlers |-> << >>]
    /\ \E keys \in SeedKeys :
          /\ CONVERSATIONS = [k \in keys |-> EarlierTurns]
          /\ seeded = [k \in keys |-> EarlierTurns]
          /\ history = [k \in keys |-> EarlierOps]

NextSeq ==
    \/ Receive(1, RequestData)
    \/ CallAdapter(1, Behaviours)
    \/ SetDefault(1)
    \/ AppendUser(1)
    \/ AppendAssistant(1)
SpecSeq == InitSeq /\ [][NextSeq]_vars

(***************************************************************************)
(* The adapter on its own: call_gemini applied once to a prompt, an        *)
(* optional conversation id and one provider behaviour.                    *)
(***************************************************************************)
InitAdapter ==
    /\ ModuleInit
    /\ invocation \in [pc : {"ready"}, prompt : Prompts,
                       conversation_id : OptionalConvIds,
                       provider : {NoBehaviour}, result : {NotInvoked}]
    /\ ServerInit

\* call_gemini(prompt, conversation_id=...) runs to its return
Invoke ==
    /\ invocation.pc = "ready"
    /\ \E beh \in Behaviours :
          invocation' = [invocation EXCEPT
                           !.pc = "done",
                           !.provider = beh,
                           !.result = call_gemini(invocation.prompt,
                                                  invocation.conversation_id, beh)]
    /\ UNCHANGED <<moduleVars, serverVars>>

NextAdapter == Invoke
SpecAdapter == InitAdapter /\ [][NextAdapter]_vars

(***************************************************************************)
(* Properties of call_gemini, checked under SpecAdapter.                   *)
(***************************************************************************)
Fns(calls) == { calls[i].fn : i \in 1..Len(calls) }
AdapterDone == invocation.pc = "done"
\* the client exposes shape 2 and not shape 1; shape 3 and not shapes 1, 2
ResponsesSelected == genai.loaded /\ ~genai.chat /\ genai.responses
OnlyGenerate == genai.loaded /\ ~genai.chat /\ ~genai.responses /\ genai.generate

\* C2: when the loaded client exposes chat.create, call_gemini calls
\* chat.create, once, with the prompt, and calls neither responses.create nor
\* generate, whether chat.create returns or raises and whatever else the
\* client exposes.
C2_ChatOnlyShapeOne ==
    (AdapterDone /\ genai.loaded /\ genai.chat) =>
        /\ Len(invocation.result.calls) = 1
        /\ invocation.result.calls[1].fn = "chat.create"
        /\ invocation.result.calls[1].prompt = invocation.prompt
        /\ Fns(invocation.result.calls) \cap {"responses.create", "generate"} = {}

\* chat.create raised while the client also exposes shapes 2 and 3
C2_Witness ==
    /\ AdapterDone /\ genai.chat /\ genai.responses /\ genai.generate
    /\ invocation.provider.raises
    /\ invocation.result.caught = <<invocation.provider.msg>>
    /\ Fns(invocation.result.calls) = {"chat.create"}

\* C3 as stated: with only generate exposed, call_gemini calls neither
\* chat.create nor responses.create and returns the text taken from the
\* generate response: output itself when it is a str, a JSON text of output
\* otherwise, str(resp) when there is no output.  (Stated for a generate call
\* that returns, with the API key set.)
C3_AsStated ==
    (AdapterDone /\ OnlyGenerate /\ GOOGLE_API_KEY /\ ~invocation.provider.raises) =>
        LET resp == invocation.provider.resp
            r == invocation.result
        IN  /\ Fns(r.calls) = {"generate"}
            /\ r.caught = << >>
            /\ r.reply.t = "str"
            /\ (resp.output # << >> /\ resp.output[1].t = "str") => r.reply = resp.output[1]
            /\ resp.output = << >> => r.reply = PyStrVal(resp.repr)

\* C3, amended: the same, except that when json.dumps(output) or str(resp)
\* raises the result is the failure (None, {"error": message}).
C3_GenerateExtraction ==
    (AdapterDone /\ OnlyGenerate /\ ~invocation.provider.raises) =>
        LET resp == invocation.provider.resp
            r == invocation.result
            dumped == JsonDumps(resp.output[1])
        IN  /\ Fns(r.calls) = {"generate"} /\ Len(r.calls) = 1
            /\ r.calls[1].prompt = invocation.prompt
            /\ IF resp.output = << >>
               THEN IF resp.strRaises
                    THEN r.reply = PyNone /\ r.raw = ErrorDict("__str__ failed")
                    ELSE r.reply = PyStrVal(resp.repr) /\ r.raw = resp
               ELSE IF resp.output[1].t = "str"
               THEN r.reply = resp.output[1] /\ r.raw = resp
               ELSE IF dumped.raised
               THEN r.reply = PyNone /\ r.raw = ErrorDict(dumped.msg)
               ELSE r.reply = PyStrVal(dumped.v) /\ r.raw = resp

\* generate returned a response whose output is a list: the reply is its JSON text
C3_Witness ==
    /\ AdapterDone /\ OnlyGenerate /\ ~invocation.provider.raises
    /\ invocation.provider.resp.output = <<PyList(<<PyStrVal("p2"), PyNone>>)>>
    /\ invocation.result.reply = PyStrVal("[\"p2\", null]")

\* An exception is raised while the text of a responses.create response is
\* extracted: by the handling of resp.output (lines 160-164), or by str(resp)
\* when there is no output (line 168).
ExtractionRaises(resp) ==
    \/ resp.output # << >> /\ OutputText(resp.output[1]).raised
    \/ resp.output = << >> /\ resp.strRaises

ErrorResponse(status, text) == <<HttpResponse(status, "error", PyStrVal(text))>>
Answered(h, status) == response[h] # << >> /\ response[h][1].status = status

\* the message key is absent, empty or made of spaces only
Blank(data) ==
    \/ data.message = << >>
    \/ \A i \in 1..Len(data.message[1]) : data.message[1][i] = " "

\* the conversation id of the request: the client's, or the synthesized one
ConvIdOf(h) ==
    IF request[h][1].conversation_id # << >> /\ request[h][1].conversation_id[1] # ""
    THEN request[h][1].conversation_id[1]
    ELSE conversation_id[h]

\* C1: a request whose call_gemini call returned a reply has, when it is
\* answered, appended to the log of its conversation id the turn {user,
\* trimmed message} and then the turn {assistant, reply}, and nothing else
\* anywhere.
C1_TwoTurnsAppended ==
    \A h \in Handlers :
        (pc[h] = "done" /\ adapter[h] # << >> /\ adapter[h][1].reply # PyNone) =>
            LET cid == ConvIdOf(h)
                old == IF cid \in DOMAIN seeded THEN seeded[cid] ELSE << >>
            IN  /\ DOMAIN CONVERSATIONS = DOMAIN seeded \cup {cid}
                /\ CONVERSATIONS[cid] =
                      old \o <<Turn("user", PyStrVal(Text(Strip(request[h][1].message[1])))),
                               Turn("assistant", adapter[h][1].reply)>>
                /\ \A k \in DOMAIN seeded \ {cid} : CONVERSATIONS[k] = seeded[k]

\* a padded message answered 200, appended after the two turns already there
C1_Witness ==
    /\ Answered(1, 200)
    /\ request[1][1].message = << <<" ", "a">> >>
    /\ Len(CONVERSATIONS[conversation_id[1]]) = 4
    /\ Cardinality(DOMAIN CONVERSATIONS) = 1

\* C5 as stated: with the SDK not loaded, or the API key not set, call_gemini
\* returns the reason SDK_UNAVAILABLE without any provider call, and the
\* request is answered 500 with that reason.
C5_AsStated ==
    \A h \in Handlers :
        (adapter[h] # << >> /\ (~genai.loaded \/ ~GOOGLE_API_KEY)) =>
            /\ adapter[h][1].calls = << >>
            /\ adapter[h][1].reply = PyNone
            /\ adapter[h][1].raw = ErrorDict(SDK_UNAVAILABLE)
            /\ response[h] = ErrorResponse(500, "Gemini request failed: " \o SDK_UNAVAILABLE)

\* C6: a request whose message is absent, empty or only spaces is answered
\* 400 "no message provided" and call_gemini is not invoked for it.
C6_BlankRejected ==
    \A h \in Handlers :
        (request[h] # << >> /\ Blank(request[h][1])) =>
            /\ pc[h] = "done"
            /\ response[h] = ErrorResponse(400, "no message provided")
            /\ adapter[h] = << >>

C6_Witness ==
    /\ request[1] # << >>
    /\ request[1][1].message = << <<" ", " ">> >>
    /\ Answered(1, 400)

\* the adapter failed: no shape was available, or an exception was caught
AdapterFailed(r) == r.calls = << >> \/ r.caught # << >>
ReasonOf(r) == IF r.caught # << >> THEN r.caught[1] ELSE SDK_UNAVAILABLE

\* C7 as stated: a request with a non-empty message is answered 200 with the
\* reply when the provider call and the extraction completed without raising,
\* and 500 with "Gemini request failed: " and the adapter's reason when the
\* adapter failed.  (Stated for a server whose API key is set.)
C7_AsStated ==
    \A h \in Handlers :
        (pc[h] = "done" /\ adapter[h] # << >> /\ GOOGLE_API_KEY) =>
            LET r == adapter[h][1]
            IN  IF AdapterFailed(r)
                THEN response[h] =
                        ErrorResponse(500, "Gemini request failed: " \o ReasonOf(r))
                ELSE response[h] = <<HttpResponse(200, "reply", r.reply)>>

\* C7, amended: as stated, except that a provider call and extraction that
\* complete without raising but yield None as the reply are answered 500
\* "Gemini request failed: unknown error".
C7_Outcome ==
    \A h \in Handlers :
        (pc[h] = "done" /\ adapter[h] # << >>) =>
            LET r == adapter[h][1]
            IN  IF AdapterFailed(r)
                THEN response[h] =
                        ErrorResponse(500, "Gemini request failed: " \o ReasonOf(r))
                ELSE IF r.reply = PyNone
                THEN response[h] =
                        ErrorResponse(500, "Gemini request failed: unknown error")
                ELSE response[h] = <<HttpResponse(200, "reply", r.reply)>>

\* chat.create raised: the request is answered 500 with the exception's text
C7_Witness ==
    /\ pc[1] = "done" /\ adapter[1] # << >>
    /\ adapter[1][1].caught = <<"quota exceeded">>
    /\ response[1] = ErrorResponse(500, "Gemini request failed: quota exceeded")

\* C10: a request answered 400 or 500 leaves CONVERSATIONS as it was, keys
\* and turns; the store differs from what it was only through a request
\* whose call_gemini call returned a reply.
C10_ErrorLeavesLog ==
    /\ \A h \in Handlers :
          (Answered(h, 400) \/ Answered(h, 500)) => CONVERSATIONS = seeded
    /\ CONVERSATIONS # seeded =>
          \E h \in Handlers :
              /\ adapter[h] # << >> /\ adapter[h][1].reply # PyNone
              /\ pc[h] \in {"append_user", "append_assistant", "done"}
              /\ pc[h] = "done" => Answered(h, 200)

\* an adapter failure after a provider call, against a store that holds turns
C10_Witness ==
    /\ Answered(1, 500)
    /\ adapter[1][1].calls # << >>
    /\ seeded # << >>
    /\ CONVERSATIONS = seeded

(***************************************************************************)
(* Properties of concurrent requests, checked under Spec.                  *)
(***************************************************************************)
\* the appends request h has completed on conversation cid, as <<h, role>>
AppendsDone(h, cid) ==
    IF conversation_id[h] # cid THEN {}
    ELSE IF pc[h] = "append_assistant" THEN {<<h, "user">>}
    ELSE IF pc[h] = "done" /\ Answered(h, 200) THEN {<<h, "user">>, <<h, "assistant">>}
    ELSE {}
AppendsOn(cid) == UNION { AppendsDone(h, cid) : h \in Handlers }
TurnOf(op) ==
    IF op[2] = "user" THEN Turn("user", PyStrVal(message[op[1]]))
    ELSE Turn("assistant", reply[op[1]])
Occurrences(log, turn) == Cardinality({ i \in 1..Len(log) : log[i] = turn })

\* C8: whatever the interleaving, the log of a conversation id holds as many
\* turns as appends were completed on it, each appended turn as often as it
\* was appended: none lost, none duplicated; and no append is completed on
\* an id that has no log.
C8_NoLostAppend ==
    \A cid \in DOMAIN CONVERSATIONS \cup { conversation_id[h] : h \in Handlers } :
        IF cid \in DOMAIN CONVERSATIONS
        THEN /\ Len(CONVERSATIONS[cid]) = Cardinality(AppendsOn(cid))
             /\ \A op \in AppendsOn(cid) :
                   Occurrences(CONVERSATIONS[cid], TurnOf(op)) =
                      Cardinality({ o \in AppendsOn(cid) : TurnOf(o) = TurnOf(op) })
        ELSE AppendsOn(cid) = {}

\* two requests with different messages, interleaved on one conversation id
C8_Witness ==
    /\ "c1" \in DOMAIN history
    /\ history["c1"] = << [number |-> 1, role |-> "user"], [number |-> 2, role |-> "user"],
                          [number |-> 2, role |-> "assistant"], [number |-> 1, role |-> "assistant"] >>
    /\ message[1] # message[2]
    /\ Len(CONVERSATIONS["c1"]) = 4

\* C9: in the log of a conversation id, the user turn of a request that has
\* been answered is immediately followed by the assistant turn of the same
\* request.  (Stated for the conversation ids clients supply, with the API
\* key set.)
C9_NotInterleaved ==
    \A cid \in DOMAIN CONVERSATIONS \cap (IF GOOGLE_API_KEY THEN ClientConvIds ELSE {}) :
        \A i \in 1..Len(history[cid]) :
            LET op == history[cid][i]
            IN  (op.role = "user" /\ op.number \in Handlers /\ pc[op.number] = "done") =>
                    /\ i + 1 <= Len(history[cid])
                    /\ history[cid][i + 1] = [number |-> op.number, role |-> "assistant"]
                    /\ i + 1 <= Len(CONVERSATIONS[cid])
                    /\ CONVERSATIONS[cid][i + 1] = Turn("assistant", reply[op.number])

=============================================================================
